---- MODULE Spec2Model ----
(***************************************************************************)
(* sparta::FlatMap (include/sparta/FlatMap.h): a map kept as a sorted      *)
(* vector of (key, value) pairs in which a key that is not stored is       *)
(* implicitly bound to Value::default_value().                             *)
(*                                                                         *)
(* One FlatMap object is the state; every public member function is one    *)
(* action, and the `other` map of leq, equals, union_with and              *)
(* intersection_with is an argument of the call.  m_map is the underlying  *)
(* sequence of pairs, iterators are 1-based positions and end() is         *)
(* Len(s) + 1.                                                             *)
(***************************************************************************)
EXTENDS Integers, Sequences, FiniteSets, TLC

\* Keys are 1..MaxKey, ordered by KeyCompare = std::less.
MaxKey == 3

\* Longest initializer list given to the constructor.
MaxInit == 2

Keys == 1..MaxKey

\* ValueType: a three-element chain Bottom < Mid < Top.
Val == {"Bottom", "Mid", "Top"}

Rank == [Bottom |-> 0, Mid |-> 1, Top |-> 2]

VARIABLES
  dflt,   \* Value::default_value() of the instantiation
  m_map,  \* the stored sequence of the object
  last,   \* the last call: its name, the branches it took, what it returned
  rec     \* the arguments of the last call and m_map before it, when recorded

vars == <<dflt, m_map, last, rec>>

-----------------------------------------------------------------------------
(* The Value adapter and the AbstractDomain interface of ValueType.        *)

is_top(v) == v = "Top"

is_bottom(v) == v = "Bottom"

ValueLeq(x, y) == Rank[x] <= Rank[y]

ValueEquals(x, y) == x = y

is_default_value(v) == v = dflt

KeyCompare(a, b) == a < b

KeyEqual(a, b) == a = b

\* ComparePairWithKey
ComparePairWithKey(pair, key) == KeyCompare(pair[1], key)

PairEqual(left, right) ==
  KeyEqual(left[1], right[1]) /\ ValueEquals(left[2], right[2])

-----------------------------------------------------------------------------
(* Caller-supplied functions.                                              *)

OperationFns == {"set_bottom", "set_mid", "set_top", "next"}

\* void(mapped_type*): the value left in *value by the call.
operation(f, v) ==
  CASE f = "set_bottom" -> "Bottom"
    [] f = "set_mid" -> "Mid"
    [] f = "set_top" -> "Top"
    [] f = "next" -> (CASE v = "Bottom" -> "Mid" [] v = "Mid" -> "Top" [] v = "Top" -> "Bottom")

CombineFns == {"join", "meet", "assign", "reset"}

\* void(mapped_type*, const mapped_type&): the value left in *x by the call.
combine(f, x, y) ==
  CASE f = "join" -> (IF Rank[x] >= Rank[y] THEN x ELSE y)
    [] f = "meet" -> (IF Rank[x] <= Rank[y] THEN x ELSE y)
    [] f = "assign" -> y
    [] f = "reset" -> dflt

Predicates == {"never", "key_not_2", "value_not_mid"}

\* bool(const Key&, const ValueType&); "not_default" is the lambda that
\* erase_default_values passes to filter.
predicate(p, k, v) ==
  CASE p = "never" -> FALSE
    [] p = "key_not_2" -> k # 2
    [] p = "value_not_mid" -> v # "Mid"
    [] p = "not_default" -> ~is_default_value(v)

-----------------------------------------------------------------------------
(* The sorted-vector primitives FlatMap calls.                             *)

End(s) == Len(s) + 1

\* std::lower_bound(first, last, key, ComparePairWithKey()) on [from, End(s)).
RECURSIVE LowerBound(_, _, _)
LowerBound(s, from, key) ==
  IF from = End(s) \/ ~ComparePairWithKey(s[from], key) THEN from
  ELSE LowerBound(s, from + 1, key)

\* m_map.find(key)
Find(s, key) ==
  LET i == LowerBound(s, 1, key)
  IN IF i # End(s) /\ KeyEqual(s[i][1], key) THEN i ELSE End(s)

InsertAt(s, i, pair) == SubSeq(s, 1, i - 1) \o <<pair>> \o SubSeq(s, i, Len(s))

EraseAt(s, i) == SubSeq(s, 1, i - 1) \o SubSeq(s, i + 1, Len(s))

\* m_map.erase(key)
EraseKey(s, key) ==
  LET i == Find(s, key) IN IF i = End(s) THEN s ELSE EraseAt(s, i)

\* m_map.insert_or_assign(key, value)
MapInsertOrAssign(s, key, value) ==
  LET i == LowerBound(s, 1, key)
  IN IF i # End(s) /\ KeyEqual(s[i][1], key)
       THEN [s EXCEPT ![i] = <<key, value>>]
       ELSE InsertAt(s, i, <<key, value>>)

\* m_map.try_emplace(key, value): the sequence afterwards; the iterator
\* returned is Find of the key in it.
TryEmplace(s, key, value) ==
  LET i == LowerBound(s, 1, key)
  IN IF i # End(s) /\ KeyEqual(s[i][1], key) THEN s
     ELSE InsertAt(s, i, <<key, value>>)

\* m_map.insert(hint, pair): the hint is used when it is the right place,
\* otherwise the place is searched for; an existing key is left alone.
InsertHint(s, hint, pair) ==
  LET key == pair[1]
      hintOk == /\ hint = End(s) \/ KeyCompare(key, s[hint][1])
                /\ hint = 1 \/ KeyCompare(s[hint - 1][1], key)
      i == LowerBound(s, 1, key)
  IN IF hintOk THEN InsertAt(s, hint, pair)
     ELSE IF i # End(s) /\ KeyEqual(s[i][1], key) THEN s
     ELSE InsertAt(s, i, pair)

RECURSIVE MergeUnique(_, _)
\* m_map.insert(ordered_unique_range, first, last): merges the sorted range
\* r into s, skipping the keys s already has.
MergeUnique(s, r) ==
  IF r = <<>> THEN s
  ELSE IF s = <<>> THEN r
  ELSE IF KeyCompare(Head(s)[1], Head(r)[1]) THEN <<Head(s)>> \o MergeUnique(Tail(s), r)
  ELSE IF KeyCompare(Head(r)[1], Head(s)[1]) THEN <<Head(r)>> \o MergeUnique(s, Tail(r))
  ELSE MergeUnique(s, Tail(r))

\* m_map.erase(first, last) with last = end()
EraseToEnd(s, first) == SubSeq(s, 1, first - 1)

\* Faulty variant of RemoveIfNot: a removal that does not keep the order of the
\* pairs it keeps.
RemoveIfNotUnstable(p, container) ==
  LET kept == SelectSeq(container, LAMBDA pair : predicate(p, pair[1], pair[2]))
  IN [i \in 1..Len(kept) |-> kept[Len(kept) + 1 - i]]

\* container.erase(std::remove_if(begin, end, pred), end): the pairs for
\* which the predicate holds, in their order.
RemoveIfNot(p, container) ==
  SelectSeq(container, LAMBDA pair : predicate(p, pair[1], pair[2]))

\* m_map.adopt_sequence(ordered_unique_range, container): the container is
\* taken as it is.
AdoptSequence(container) == container

-----------------------------------------------------------------------------
(* FlatMap member functions, as functions of the stored sequences.         *)

filter(p, s) == AdoptSequence(RemoveIfNot(p, s))

erase_default_values(s) == filter("not_default", s)

at(s, key) ==
  LET it == Find(s, key) IN IF it = End(s) THEN dflt ELSE s[it][2]

remove(s, key) == EraseKey(s, key)

insert_or_assign(s, key, value) ==
  IF is_default_value(value) THEN remove(s, key)
  ELSE MapInsertOrAssign(s, key, value)

\* Faulty variant of update: the binding is kept when the operation leaves the
\* default value in it.
update_without_erase(f, s, key) ==
  LET e == TryEmplace(s, key, dflt)
      it == Find(e, key)
  IN [e EXCEPT ![it] = <<key, operation(f, e[it][2])>>]

update(f, s, key) ==
  LET e == TryEmplace(s, key, dflt)
      it == Find(e, key)
      applied == [e EXCEPT ![it] = <<key, operation(f, e[it][2])>>]
  IN IF is_default_value(applied[it][2]) THEN EraseAt(applied, it) ELSE applied

\* The loop of map: f applied to every stored value.
MapLoop(f, s) == [i \in 1..Len(s) |-> <<s[i][1], operation(f, s[i][2])>>]

\* Faulty variant of map: the default values are not erased after the loop.
map_without_erase(f, s) == MapLoop(f, s)

map(f, s) ==
  LET applied == MapLoop(f, s)
      has_default_value == \E i \in 1..Len(applied) : is_default_value(applied[i][2])
  IN IF has_default_value THEN erase_default_values(applied) ELSE applied

RECURSIVE FromList(_)
\* FlatMap(std::initializer_list): insert_or_assign of every pair in turn.
FromList(l) ==
  IF l = <<>> THEN <<>>
  ELSE insert_or_assign(FromList(SubSeq(l, 1, Len(l) - 1)), l[Len(l)][1], l[Len(l)][2])

\* Faulty variant of equals: std::equal without other's end, which stops at the end
\* of this.
equals_three_iterators(a, b) ==
  \A i \in 1..Len(a) : i <= Len(b) /\ PairEqual(a[i], b[i])

\* std::equal(begin, end, other.begin, other.end, PairEqual())
equals(a, b) ==
  /\ Len(a) = Len(b)
  /\ \A i \in 1..Len(a) : PairEqual(a[i], b[i])

RECURSIVE LeqTopLoopOffByOne(_, _, _, _)
\* Faulty variant of LeqTopLoop: the size test of the loop is <= in place of <.
LeqTopLoopOffByOne(a, b, it, other_it) ==
  IF other_it = End(b) THEN TRUE
  ELSE IF End(a) - it <= End(b) - other_it THEN FALSE
  ELSE LET found == LowerBound(a, it, b[other_it][1])
       IN IF found = End(a) \/ ~KeyEqual(a[found][1], b[other_it][1]) THEN FALSE
          ELSE IF ~ValueLeq(a[found][2], b[other_it][2]) THEN FALSE
          ELSE LeqTopLoopOffByOne(a, b, found + 1, other_it + 1)

RECURSIVE LeqTopLoop(_, _, _, _)
\* The while loop of leq_when_default_is_top, from the iterators it, other_it.
LeqTopLoop(a, b, it, other_it) ==
  IF other_it = End(b) THEN TRUE
  ELSE IF End(a) - it < End(b) - other_it THEN FALSE
  ELSE LET found == LowerBound(a, it, b[other_it][1])
       IN IF found = End(a) \/ ~KeyEqual(a[found][1], b[other_it][1]) THEN FALSE
          ELSE IF ~ValueLeq(a[found][2], b[other_it][2]) THEN FALSE
          ELSE LeqTopLoop(a, b, found + 1, other_it + 1)

\* Faulty variant of leq_when_default_is_top: the first size test is > in place of <.
leq_when_default_is_top_reversed(a, b) ==
  IF Len(a) > Len(b) THEN FALSE ELSE LeqTopLoop(a, b, 1, 1)

leq_when_default_is_top(a, b) ==
  IF Len(a) < Len(b) THEN FALSE ELSE LeqTopLoop(a, b, 1, 1)

RECURSIVE LeqBottomLoop(_, _, _, _)
\* The while loop of leq_when_default_is_bottom.
LeqBottomLoop(a, b, it, other_it) ==
  IF it = End(a) THEN TRUE
  ELSE IF End(a) - it > End(b) - other_it THEN FALSE
  ELSE LET found == LowerBound(b, other_it, a[it][1])
       IN IF found = End(b) \/ ~KeyEqual(a[it][1], b[found][1]) THEN FALSE
          ELSE IF ~ValueLeq(a[it][2], b[found][2]) THEN FALSE
          ELSE LeqBottomLoop(a, b, it + 1, found + 1)

leq_when_default_is_bottom(a, b) ==
  IF Len(a) > Len(b) THEN FALSE ELSE LeqBottomLoop(a, b, 1, 1)

\* What a call returns: a boolean, or the exception that ends it.
Returns(b) == [threw |-> FALSE, value |-> b]

undefined_operation == [threw |-> TRUE, value |-> FALSE]

\* Faulty variant of leq: the two branches are exchanged.
leq_branches_exchanged(a, b) ==
  IF is_top(dflt) THEN Returns(leq_when_default_is_bottom(a, b))
  ELSE IF is_bottom(dflt) THEN Returns(leq_when_default_is_top(a, b))
  ELSE undefined_operation

\* Faulty variant of leq: a default that is not Top is taken for Bottom.
leq_without_check(a, b) ==
  IF is_top(dflt) THEN Returns(leq_when_default_is_top(a, b))
  ELSE Returns(leq_when_default_is_bottom(a, b))

leq(a, b) ==
  IF is_top(dflt) THEN Returns(leq_when_default_is_top(a, b))
  ELSE IF is_bottom(dflt) THEN Returns(leq_when_default_is_bottom(a, b))
  ELSE undefined_operation

RECURSIVE UnionLoop(_, _, _, _, _)
\* The while loop of union_with: a is this->m_map as changed so far.
UnionLoop(f, a, b, it, other_it) ==
  IF other_it = End(b) THEN a
  ELSE LET found == LowerBound(a, it, b[other_it][1])
       IN IF found = End(a) THEN MergeUnique(a, SubSeq(b, other_it, Len(b)))
          ELSE IF KeyEqual(a[found][1], b[other_it][1])
            THEN UnionLoop(f, [a EXCEPT ![found][2] = combine(f, @, b[other_it][2])],
                           b, found + 1, other_it + 1)
          ELSE UnionLoop(f, InsertHint(a, found, b[other_it]), b, found + 1, other_it + 1)

\* Faulty variant of union_with: the default values are not erased after the loop.
union_with_without_erase(f, a, b) == UnionLoop(f, a, b, 1, 1)

union_with(f, a, b) == erase_default_values(UnionLoop(f, a, b, 1, 1))

RECURSIVE IntersectionLoopNoTruncate(_, _, _, _, _)
\* Faulty variant of IntersectionLoop: the loop ends when other is exhausted without
\* erasing the rest of this.
IntersectionLoopNoTruncate(f, a, b, it, other_it) ==
  IF it = End(a) THEN a
  ELSE LET found == LowerBound(b, other_it, a[it][1])
       IN IF found = End(b) THEN a
          ELSE IF KeyEqual(a[it][1], b[found][1])
            THEN IntersectionLoopNoTruncate(f, [a EXCEPT ![it][2] = combine(f, @, b[found][2])],
                                            b, it + 1, found + 1)
          ELSE IntersectionLoopNoTruncate(f, [a EXCEPT ![it][2] = dflt], b, it + 1, found)

RECURSIVE IntersectionLoop(_, _, _, _, _)
\* The while loop of intersection_with.
IntersectionLoop(f, a, b, it, other_it) ==
  IF it = End(a) THEN a
  ELSE LET found == LowerBound(b, other_it, a[it][1])
       IN IF found = End(b) THEN EraseToEnd(a, it)
          ELSE IF KeyEqual(a[it][1], b[found][1])
            THEN IntersectionLoop(f, [a EXCEPT ![it][2] = combine(f, @, b[found][2])],
                                  b, it + 1, found + 1)
          ELSE IntersectionLoop(f, [a EXCEPT ![it][2] = dflt], b, it + 1, found)

intersection_with(f, a, b) == erase_default_values(IntersectionLoop(f, a, b, 1, 1))

clear(s) == <<>>

-----------------------------------------------------------------------------------------------------------------------------------------------------
(* The state machine: construction, then any sequence of calls.            *)

InitLists == UNION {[1..n -> Keys \X Val] : n \in 0..MaxInit}

Stored(s, key) == Find(s, key) # End(s)

HasDefault(s) == \E i \in 1..Len(s) : is_default_value(s[i][2])

\* The maps a FlatMap argument ranges over: the strictly ascending
\* sequences of pairs without a default value.
SortedSeqOf(g) ==
  LET K == DOMAIN g
  IN [i \in 1..Cardinality(K) |->
       LET k == CHOOSE k \in K : Cardinality({j \in K : j < k}) = i - 1
       IN <<k, g[k]>>]

FlatMapsOf ==
  [d \in Val |-> {SortedSeqOf(g) : g \in UNION {[K -> Val \ {d}] : K \in SUBSET Keys}}]

FlatMaps == FlatMapsOf[dflt]

Void == Returns(FALSE)

KeysOf(s) == {s[i][1] : i \in 1..Len(s)}

\* A branch of the call, noted when it is taken.
Note(taken, branch) == IF taken THEN {branch} ELSE {}

\* Some key stored in both maps is combined into the default value.
CombinesToDefault(f, a, b) ==
  \E i \in 1..Len(a), j \in 1..Len(b) :
    KeyEqual(a[i][1], b[j][1]) /\ is_default_value(combine(f, a[i][2], b[j][2]))

NoArgs == [on |-> FALSE, this |-> <<>>, other |-> <<>>, fn |-> "", key |-> 0]

\* The call's arguments, kept when recording is on.
Args(other, fn, key) ==
  IF rec.on THEN [on |-> TRUE, this |-> m_map, other |-> other, fn |-> fn, key |-> key]
  ELSE rec

Call(op, paths, ret) ==
  [op |-> op, paths |-> paths, threw |-> ret.threw, value |-> ret.value]

Init ==
  /\ dflt \in Val
  /\ \E l \in InitLists : m_map = FromList(l)
  /\ last = Call("FlatMap", {}, Void)
  /\ rec = NoArgs

Remove(key) ==
  /\ m_map' = remove(m_map, key)
  /\ last' = Call("remove", {}, Void)
  /\ rec' = Args(<<>>, "", key)
  /\ UNCHANGED dflt

InsertOrAssign(key, value) ==
  /\ m_map' = insert_or_assign(m_map, key, value)
  /\ last' = Call("insert_or_assign", Note(is_default_value(value), "remove"), Void)
  /\ rec' = Args(<<>>, value, key)
  /\ UNCHANGED dflt

Update(f, key) ==
  /\ m_map' = update(f, m_map, key)
  /\ last' = Call("update",
                  Note(~Stored(m_map, key), "emplace")
                    \cup Note(is_default_value(operation(f, at(m_map, key))), "erase"),
                  Void)
  /\ rec' = Args(<<>>, f, key)
  /\ UNCHANGED dflt

Map(f) ==
  /\ m_map' = map(f, m_map)
  /\ last' = Call("map", Note(HasDefault(MapLoop(f, m_map)), "erase"), Void)
  /\ rec' = Args(<<>>, f, 0)
  /\ UNCHANGED dflt

Filter(p) ==
  /\ m_map' = filter(p, m_map)
  /\ last' = Call("filter", {}, Void)
  /\ rec' = Args(<<>>, p, 0)
  /\ UNCHANGED dflt

\* The branches a union_with call takes.
UnionPaths(f, a, b) ==
  Note(\E k \in KeysOf(b) \ KeysOf(a) : \E j \in KeysOf(a) : KeyCompare(k, j), "insert")
    \cup Note(\E k \in KeysOf(b) : \A j \in KeysOf(a) : KeyCompare(j, k), "range")
    \cup Note(CombinesToDefault(f, a, b), "erase")

UnionWith(f, other) ==
  /\ m_map' = union_with(f, m_map, other)
  /\ last' = Call("union_with", UnionPaths(f, m_map, other), Void)
  /\ rec' = Args(other, f, 0)
  /\ UNCHANGED dflt

\* The branches an intersection_with call takes.
IntersectionPaths(f, a, b) ==
  Note(\E k \in KeysOf(a) : \A j \in KeysOf(b) : KeyCompare(j, k), "truncate")
    \cup Note(CombinesToDefault(f, a, b), "erase")

IntersectionWith(f, other) ==
  /\ m_map' = intersection_with(f, m_map, other)
  /\ last' = Call("intersection_with", IntersectionPaths(f, m_map, other), Void)
  /\ rec' = Args(other, f, 0)
  /\ UNCHANGED dflt

Clear ==
  /\ m_map' = clear(m_map)
  /\ last' = Call("clear", {}, Void)
  /\ rec' = Args(<<>>, "", 0)
  /\ UNCHANGED dflt

Leq(other) ==
  /\ last' = Call("leq", {}, leq(m_map, other))
  /\ rec' = Args(other, "", 0)
  /\ UNCHANGED <<dflt, m_map>>

Equals(other) ==
  /\ last' = Call("equals", {}, Returns(equals(m_map, other)))
  /\ rec' = Args(other, "", 0)
  /\ UNCHANGED <<dflt, m_map>>

Next ==
  \/ \E key \in Keys : Remove(key)
  \/ \E key \in Keys, value \in Val : InsertOrAssign(key, value)
  \/ \E f \in OperationFns, key \in Keys : Update(f, key)
  \/ \E f \in OperationFns : Map(f)
  \/ \E p \in Predicates : Filter(p)
  \/ \E f \in CombineFns, other \in FlatMaps : UnionWith(f, other)
  \/ \E f \in CombineFns, other \in FlatMaps : IntersectionWith(f, other)
  \/ Clear
  \/ \E other \in FlatMaps : Leq(other)
  \/ \E other \in FlatMaps : Equals(other)

Spec == Init /\ [][Next]_vars

(* One call on any map, with its arguments and the map before it recorded. *)

InitCall ==
  /\ dflt \in Val
  /\ m_map \in FlatMaps
  /\ last = Call("FlatMap", {}, Void)
  /\ rec = [NoArgs EXCEPT !.on = TRUE]

NextCall == last.op = "FlatMap" /\ Next

SpecCall == InitCall /\ [][NextCall]_vars

-----------------------------------------------------------------------------
(* Properties.  Those of one call are stated on SpecCall, where rec holds  *)
(* the receiver before the call and the call's arguments.                  *)

Called(op) == rec.on /\ last.op = op

TopOrBottom == is_top(dflt) \/ is_bottom(dflt)

\* this.at(k) is below other.at(k) at every key.
PointwiseLeq(a, b) == \A k \in Keys : ValueLeq(at(a, k), at(b, k))

\* this.at(k) equals other.at(k) at every key.
PointwiseEquals(a, b) == \A k \in Keys : ValueEquals(at(a, k), at(b, k))

\* C1 (sparsity, I1): in every state reached by construction followed by any
\* sequence of calls, no stored pair has a default value.
C1_Sparsity == \A i \in 1..Len(m_map) : ~is_default_value(m_map[i][2])

\* A union_with whose combine turned a stored value into the default, and
\* which left other pairs stored.
C1_Witness ==
  last.op = "union_with" /\ "erase" \in last.paths /\ Len(m_map) >= 2

\* C2 (order, I2): in every state reached by construction followed by any
\* sequence of calls, the stored keys are strictly ascending.
C2_Ordered ==
  \A i \in 1..Len(m_map), j \in 1..Len(m_map) :
    i < j => KeyCompare(m_map[i][1], m_map[j][1])

\* A union_with that made both a hinted single insert and the bulk range
\* insert.
C2_Witness ==
  last.op = "union_with" /\ {"insert", "range"} \subseteq last.paths /\ Len(m_map) >= 3

\* C3: with default Top or Bottom, leq returns a boolean, and it returns true
\* exactly when this.at(k) is below other.at(k) at every key.
C3_LeqIsPointwise ==
  (Called("leq") /\ TopOrBottom) =>
    /\ ~last.threw
    /\ last.value = PointwiseLeq(rec.this, rec.other)

\* leq under default Bottom returned true for a one-pair map whose key is
\* the last of three in other: the search skipped two pairs of other.
C3_Witness ==
  /\ Called("leq") /\ is_bottom(dflt) /\ last.value
  /\ Len(rec.this) = 1 /\ Len(rec.other) = 3
  /\ rec.this[1][1] = rec.other[3][1]

\* The maps of the example: m1 = {x: 5} and m2 = {x: 5, y: 7}, with x = 1,
\* y = 2 and Mid, Bottom for the two values that are not Top.
ExampleM1 == <<<<1, "Mid">>>>

ExampleM2 == <<<<1, "Mid">>, <<2, "Bottom">>>>

\* C4 as the claim states it: under default Top, m1.leq(m2) is true and
\* m2.leq(m1) is false, and a map with more stored pairs than other fails leq.
C4_AsClaimed ==
  (Called("leq") /\ is_top(dflt)) =>
    /\ (rec.this = ExampleM1 /\ rec.other = ExampleM2) => last.value
    /\ (rec.this = ExampleM2 /\ rec.other = ExampleM1) => ~last.value
    /\ Len(rec.this) > Len(rec.other) => ~last.value

\* C4, amended: under default Top, m1.leq(m2) is false and m2.leq(m1) is
\* true, and a map with fewer stored pairs than other fails leq.
C4_FewerEntriesFail ==
  (Called("leq") /\ is_top(dflt)) =>
    /\ (rec.this = ExampleM1 /\ rec.other = ExampleM2) => ~last.value
    /\ (rec.this = ExampleM2 /\ rec.other = ExampleM1) => last.value
    /\ Len(rec.this) < Len(rec.other) => ~last.value

\* m2.leq(m1) returned true: a map with more stored pairs satisfied leq.
C4_Witness ==
  /\ Called("leq") /\ is_top(dflt) /\ last.value
  /\ rec.this = ExampleM2 /\ rec.other = ExampleM1

\* What union_with leaves at a key.
UnionValue(f, a, b, k) ==
  IF Stored(a, k) /\ Stored(b, k) THEN combine(f, at(a, k), at(b, k))
  ELSE IF Stored(b, k) THEN at(b, k)
  ELSE at(a, k)

\* C5: after union_with, a key stored in both maps holds combine of the two
\* values, a key stored only in other holds other's value, a key stored only
\* in this holds its old value, and exactly the keys whose value is not the
\* default are stored; the union with the empty map changes nothing.
C5_UnionWith ==
  Called("union_with") =>
    /\ \A k \in Keys :
         /\ at(m_map, k) = UnionValue(rec.fn, rec.this, rec.other, k)
         /\ Stored(m_map, k) <=> ~is_default_value(UnionValue(rec.fn, rec.this, rec.other, k))
    /\ Len(m_map) = Cardinality({k \in Keys : Stored(m_map, k)})
    /\ rec.other = <<>> => m_map = rec.this

\* The example {a, b} union {b, c} with join under default Bottom: one key
\* only in this, one in both, one only in other.
C5_Witness ==
  /\ Called("union_with") /\ is_bottom(dflt) /\ rec.fn = "join"
  /\ rec.this = <<<<1, "Mid">>, <<2, "Top">>>>
  /\ rec.other = <<<<2, "Top">>, <<3, "Mid">>>>
  /\ m_map = <<<<1, "Mid">>, <<2, "Top">>, <<3, "Mid">>>>

\* The key is stored in both maps and combine of its values is not the
\* default.
IntersectionKeeps(f, a, b, k) ==
  /\ Stored(a, k)
  /\ Stored(b, k)
  /\ ~is_default_value(combine(f, at(a, k), at(b, k)))

\* C6: after intersection_with, a key is stored exactly when it was stored in
\* both maps and combine of the two values is not the default, and then it
\* holds that combined value; the intersection with the empty map is empty.
C6_IntersectionWith ==
  Called("intersection_with") =>
    /\ \A k \in Keys :
         /\ Stored(m_map, k) <=> IntersectionKeeps(rec.fn, rec.this, rec.other, k)
         /\ Stored(m_map, k) => at(m_map, k) = combine(rec.fn, at(rec.this, k), at(rec.other, k))
    /\ Len(m_map) = Cardinality({k \in Keys : Stored(m_map, k)})
    /\ rec.other = <<>> => m_map = <<>>

\* {1, 2, 3} intersected with {2}: key 1 is skipped alone, key 2 is
\* combined, key 3 is cut off when other is exhausted.
C6_Witness ==
  /\ Called("intersection_with") /\ is_bottom(dflt) /\ rec.fn = "meet"
  /\ rec.this = <<<<1, "Mid">>, <<2, "Top">>, <<3, "Mid">>>>
  /\ rec.other = <<<<2, "Mid">>>>
  /\ m_map = <<<<2, "Mid">>>>

\* C7: equals returns true exactly when this.at(k) equals other.at(k) at
\* every key.
C7_EqualsIsPointwise ==
  Called("equals") => (~last.threw /\ last.value = PointwiseEquals(rec.this, rec.other))

\* equals returned false for a map that is a proper prefix of other.
C7_Witness ==
  /\ Called("equals") /\ ~last.value
  /\ Len(rec.this) >= 1 /\ Len(rec.this) < Len(rec.other)
  /\ rec.this = SubSeq(rec.other, 1, Len(rec.this))

\* C8: with a default that is neither Top nor Bottom, leq ends in the
\* undefined-operation error and leaves the map as it was.
C8_LeqUndefined ==
  (Called("leq") /\ ~TopOrBottom) => (last.threw /\ m_map = rec.this)

\* leq of two empty maps under default Mid ended in the error.
C8_Witness ==
  /\ Called("leq") /\ ~TopOrBottom /\ last.threw
  /\ rec.this = <<>> /\ rec.other = <<>>

\* C9: with default Top or Bottom, leq returns true whenever equals holds of
\* the two maps, in particular for a map and itself.
C9_EqualsImpliesLeq ==
  (Called("leq") /\ TopOrBottom /\ equals(rec.this, rec.other)) =>
    (~last.threw /\ last.value)

\* m.leq(m) returned true for a map with two pairs.
C9_Witness ==
  /\ Called("leq") /\ TopOrBottom /\ last.value
  /\ Len(rec.this) >= 2 /\ rec.other = rec.this

\* C10: after update, at(key) is operation applied to the old at(key), key
\* is stored exactly when that value is not the default, every other key is
\* as before, and an absent key whose result is the default leaves the
\* sequence as it was.
C10_Update ==
  Called("update") =>
    LET result == operation(rec.fn, at(rec.this, rec.key))
    IN /\ at(m_map, rec.key) = result
       /\ Stored(m_map, rec.key) <=> ~is_default_value(result)
       /\ \A k \in Keys \ {rec.key} :
            /\ at(m_map, k) = at(rec.this, k)
            /\ Stored(m_map, k) <=> Stored(rec.this, k)
       /\ Len(m_map) = Cardinality({k \in Keys : Stored(m_map, k)})
       /\ (~Stored(rec.this, rec.key) /\ is_default_value(result)) => m_map = rec.this

\* update of a key that was absent, between two stored keys, whose operation
\* left the default value.
C10_Witness ==
  /\ Called("update") /\ {"emplace", "erase"} \subseteq last.paths
  /\ Len(rec.this) = 2 /\ rec.key = 2
  /\ m_map = rec.this

====
